---- MODULE Spec2Model ----
(***************************************************************************)
(* A model of wherigo.py: the Zone proximity state machine driven by       *)
(* ZCartridge._update, the ZTimer scheduling operations, and the           *)
(* Container/Inventory graph maintained by ZObject.MoveTo.                 *)
(*                                                                         *)
(* Numbers.  Latitudes and longitudes are whole degrees.  A Distance is    *)
(* held in half metres (Distance (10) is 20), so that the truncation of    *)
(* Distance.__cmp__ is visible.  Times are whole seconds.                  *)
(***************************************************************************)
EXTENDS Integers, Sequences, FiniteSets, TLC

None == "None"

\* An optional number (a python value that is None or a number): <<>> or <<n>>.
NoNumber == <<>>

Some(n) == <<n>>

(***************************************************************************)
(* Small helpers on sequences (python lists / lua tables).                 *)
(***************************************************************************)
InList(x, l) == \E k \in 1..Len(l) : l[k] = x

IndexOf(x, l) == CHOOSE k \in 1..Len(l) : l[k] = x /\ \A j \in 1..(k - 1) : l[j] # x

\* l.pop (l.index (x)): the first occurrence of x is removed.
PopFirst(x, l) ==
    LET k == IndexOf(x, l)
    IN  [j \in 1..(Len(l) - 1) |-> IF j < k THEN l[j] ELSE l[j + 1]]

Count(x, l) == Cardinality({k \in 1..Len(l) : l[k] = x})

(***************************************************************************)
(* Geodesy.                                                                *)
(***************************************************************************)
INVALID_ZONEPOINT == [invalid |-> TRUE]

ZonePoint(lat, lon) == [latitude |-> lat, longitude |-> lon]

\* _intersect: 1 when the meridian arc from the pole to point crosses segment.
\* lat = s0.lat + (s1.lat - s0.lat) * a / b > point.lat is compared after
\* multiplying by b (b > 0 wherever the division is reached).
_intersect(point, segment) ==
    IF INVALID_ZONEPOINT \in {point, segment[1], segment[2]} THEN 0
    ELSE
    LET lon1 == segment[1].longitude
        lon2 == segment[2].longitude
        lonp == point.longitude
        lat0 == segment[1].latitude
        lat1 == segment[2].latitude
        above(a, b) == lat0 * b + (lat1 - lat0) * a > point.latitude * b
    IN  IF (lon2 - lon1) % 360 > 180
        THEN IF (lonp - lon2) % 360 > 180 \/ (lon1 - lonp) % 360 >= 180 \/ lon1 = lonp
             THEN 0
             ELSE IF above((lon1 - lonp) % 360, (lon1 - lon2) % 360) THEN 1 ELSE 0
        ELSE IF (lonp - lon1) % 360 > 180 \/ (lon2 - lonp) % 360 >= 180 \/ lon2 = lonp
             THEN 0
             ELSE IF above((lonp - lon1) % 360, (lon2 - lon1) % 360) THEN 1 ELSE 0

RECURSIVE SumCrossings(_, _, _, _)
SumCrossings(point, nonorigin, points, i) ==
    IF i > Len(points) - 1 THEN 0
    ELSE _intersect(point, <<points[i], points[i + 1]>>)
         + _intersect(nonorigin, <<points[i], points[i + 1]>>)
         + SumCrossings(point, nonorigin, points, i + 1)

\* IsPointInZone on the boundary list of a zone.
PointInPolygon(point, pts) ==
    IF point = INVALID_ZONEPOINT THEN FALSE
    ELSE LET nonorigin == ZonePoint(pts[1].latitude, ((pts[1].longitude + 180) % 180) - 90)
             points == Append(pts, pts[1])
         IN  SumCrossings(point, nonorigin, points, 1) % 2 # 0

\* Distance.__cmp__ returns self.value - other.value, which python 2 converts
\* to an int by truncation towards zero; values are in half metres.
DistanceCmp(a, b) ==
    LET d == a - b
    IN  IF d >= 0 THEN d \div 2 ELSE -((-d) \div 2)

DistanceLess(a, b) == DistanceCmp(a, b) < 0

(***************************************************************************)
(* The cartridge: the objects registered in AllZObjects.                   *)
(***************************************************************************)
Zones == {"z1", "z2"}

\* The order of the Zones in AllZObjects.
ZoneOrder == <<"z1", "z2">>

\* Zone.Points: z1 is a square, z2 a rectangle that contains it.
Points(z) ==
    IF z = "z1"
    THEN <<ZonePoint(0, 0), ZonePoint(0, 2), ZonePoint(2, 2), ZonePoint(2, 0)>>
    ELSE <<ZonePoint(0, 0), ZonePoint(0, 4), ZonePoint(2, 4), ZonePoint(2, 0)>>

IsPointInZone(point, z) == PointInPolygon(point, Points(z))

\* Zone.ProximityRange and Zone.DistanceRange; Distance (-1) is the default.
ProximityRange(z) == IF z = "z1" THEN 20 ELSE 20

DistanceRange(z) == IF z = "z1" THEN 40 ELSE -2

\* The handler slots a cartridge has set: all of them on z1, none on z2.
\* OnInside and OnNotInRange are attributes the cartridge adds to the Zone;
\* lines 623-624 look a handler up by the name of the State.
ZoneHandlers ==
    {"OnSetActive", "OnEnter", "OnExit", "OnProximity", "OnDistant", "OnNotInRange", "OnInside"}

HasHandler(z, h) == z = "z1" /\ h \in ZoneHandlers

ZoneStates == {"Inside", "Proximity", "Distant", "NotInRange"}

Timers == {"t1", "t2"}

\* ZTimer.Type and ZTimer.Duration (seconds), as the cartridge sets them.
Type(t) == IF t = "t1" THEN "Interval" ELSE "Countdown"

Duration(t) == IF t \in Timers THEN 1 ELSE -1

\* OnStart, OnStop and OnTick are set on both timers.
TimerHandlers == {"OnStart", "OnStop", "OnTick"}

HasTimerHandler(t, h) == t \in Timers /\ h \in TimerHandlers

\* The objects of the containment graph: the Player, the Zones and two items.
Items == {"i1", "i2"}

Objects == {"Player"} \cup Zones \cup Items

\* The clock source is followed up to this time.
MaxTime == 3

\* The clock source holds at most this many scheduling requests.
MaxPending == 2

\* The specifications of more than one timer or of all operations follow the
\* clock up to this time.
MaxTimeAll == 1

(***************************************************************************)
(* Inputs of a tick.                                                       *)
(***************************************************************************)
\* position: lat, lon and the error estimates epx, epy (None when absent).
\* In z1 and z2, in z2 only, and in neither.
PositionInBoth == [lat |-> 1, lon |-> 1, epx |-> NoNumber, epy |-> NoNumber]

PositionInOne == [lat |-> 1, lon |-> 3, epx |-> Some(6), epy |-> Some(10)]

PositionInNone == [lat |-> 5, lon |-> 5, epx |-> Some(10), epy |-> NoNumber]

Positions == {PositionInBoth, PositionInOne, PositionInNone}

\* What VectorToZone returns for a point outside a zone: a distance (half
\* metres) and a bearing.  The haversine arithmetic is not computed; every
\* tick draws the result for each zone from these.
VectorFar == [d |-> 50, b |-> 270]

Vectors == {[d |-> 18, b |-> 0], [d |-> 19, b |-> 90], VectorFar}

VARIABLES
    Active,           \* Zone.Active
    State,            \* Zone.State
    zstate,           \* Zone._state
    zinside,          \* Zone._inside
    zactive,          \* Zone._active
    CurrentDistance,  \* Zone.CurrentDistance
    CurrentBearing,   \* Zone.CurrentBearing
    InsideOfZones,    \* Player.InsideOfZones
    ObjectLocation,   \* Player.ObjectLocation
    PositionAccuracy, \* Player.PositionAccuracy
    lastEdge,         \* per Zone, the last of OnEnter and OnExit invoked, or None
    clock,            \* the time of the clock source
    ctime,            \* ZCartridge._time
    Remaining,        \* ZTimer.Remaining
    target,           \* ZTimer._target: NoNumber or Some(time)
    source,           \* ZTimer._source: NoNumber or Some(handle)
    pending,          \* the scheduling requests the clock source holds
    created,          \* the objects constructed so far
    Container,        \* ZObject.Container, or None
    Inventory,        \* ZObject.Inventory
    op,               \* the operation that produced this state
    arg,              \* the object it was called on, or None
    ret,              \* what that operation returned ("True", "False", None) or "raised"
    fired,            \* the handlers it invoked and what it asked of the clock source, in order
    evald             \* the Zones the last tick evaluated as active

zvars == <<Active, State, zstate, zinside, zactive, CurrentDistance, CurrentBearing,
           InsideOfZones, ObjectLocation, PositionAccuracy, lastEdge>>

tvars == <<clock, ctime, Remaining, target, source, pending>>

gvars == <<created, Container, Inventory>>

vars == <<zvars, tvars, gvars, op, arg, ret, fired, evald>>

(***************************************************************************)
(* ZCartridge._update, the loop over the Zones (lines 554-627).            *)
(***************************************************************************)
\* What the handlers of a tick do, as the cartridge wrote them: nothing, or
\* the handler `on` of z1 sets the Active flag of a Zone, or it moves the
\* player.
NoScript ==
    [on |-> None, kind |-> "nothing", zone |-> None, value |-> FALSE,
     to |-> INVALID_ZONEPOINT]

\* The handlers that carry a script.
ScriptHandlers == {"OnSetActive", "OnEnter", "OnExit"}

Scripts ==
    {NoScript}
    \cup {[on |-> h, kind |-> "SetActive", zone |-> z, value |-> b, to |-> INVALID_ZONEPOINT] :
             h \in ScriptHandlers, z \in Zones, b \in BOOLEAN}
    \cup {[on |-> h, kind |-> "MovePlayer", zone |-> None, value |-> FALSE,
           to |-> ZonePoint(5, 5)] : h \in ScriptHandlers}

\* The body of handler h of Zone z runs on the objects as they are; the log
\* records what it assigns.
Handler(s, z, h) ==
    IF z = "z1" /\ s.script.on = h
    THEN IF s.script.kind = "SetActive"
         THEN [s EXCEPT !.Active[s.script.zone] = s.script.value,
                        !.fired = Append(@, <<s.script.zone, "SetActive", s.Remaining>>)]
         ELSE IF s.script.kind = "MovePlayer"
         THEN [s EXCEPT !.ObjectLocation = s.script.to,
                        !.fired = Append(@, <<"Player", "MovePlayer", s.Remaining>>)]
         ELSE s
    ELSE s

\* A handler, when set, is invoked: the log records it with the Remaining of
\* the timers as the handler reads them.
Fire(s, z, h) ==
    IF HasHandler(z, h)
    THEN Handler([s EXCEPT !.fired = Append(@, <<z, h, s.Remaining>>),
                           !.lastEdge[z] = IF h \in {"OnEnter", "OnExit"} THEN h ELSE @],
                 z, h)
    ELSE s

\* Lines 557-563: the activation edge.
ActivationEdge(s, z) ==
    IF s.zactive[z] # s.Active[z]
    THEN LET s1 == [s EXCEPT !.zactive[z] = s.Active[z]]
         IN  IF HasHandler(z, "OnSetActive")
             THEN [Fire(s1, z, "OnSetActive") EXCEPT !.update_all = TRUE]
             ELSE s1
    ELSE s

\* The inactive Zone skipped without being taken out of the inside set.
InactiveZone_KeepsInside(s, z) == s

\* Lines 564-568: an inactive Zone leaves the inside set and is skipped.
InactiveZone(s, z) ==
    IF InList(z, s.InsideOfZones)
    THEN [s EXCEPT !.InsideOfZones = PopFirst(z, @), !.update_all = TRUE]
    ELSE s

\* Lines 570-590: the containment edge.  pop (list ().index (i)) raises
\* ValueError when the Zone is not in the list, which ends the tick.
ContainmentEdge(s, z, inside) ==
    IF inside = s.zinside[z] THEN s
    ELSE
    LET s1 == [s EXCEPT !.update_all = TRUE, !.zinside[z] = inside]
    IN  IF inside
        THEN LET s2 == [s1 EXCEPT !.InsideOfZones = Append(@, z)]
                 s3 == IF s2.zstate[z] = "NotInRange" THEN Fire(s2, z, "OnDistant") ELSE s2
                 s4 == IF s3.zstate[z] # "Proximity" THEN Fire(s3, z, "OnProximity") ELSE s3
             IN  Fire(s4, z, "OnEnter")
        ELSE IF ~InList(z, s1.InsideOfZones)
             THEN [s1 EXCEPT !.raised = TRUE]
             ELSE Fire([s1 EXCEPT !.InsideOfZones = PopFirst(z, @)], z, "OnExit")

\* A handler of lines 598-617: invoked when set, and update_all with it.
FireMark(s, z, h) ==
    IF HasHandler(z, h) THEN [Fire(s, z, h) EXCEPT !.update_all = TRUE] ELSE s

\* Lines 596-618: CurrentDistance and CurrentBearing are stored and State is
\* set from the distance; the handlers of the three branches.
Classify(s, z, v) ==
    LET s1 == [s EXCEPT !.CurrentDistance[z] = v.d, !.CurrentBearing[z] = v.b]
    IN  IF DistanceLess(v.d, ProximityRange(z))
        THEN LET a == IF s1.zstate[z] = "NotInRange"
                      THEN FireMark(s1, z, "OnDistant") ELSE s1
             IN  [a EXCEPT !.State[z] = "Proximity"]
        ELSE IF DistanceLess(DistanceRange(z), 0) \/ DistanceLess(v.d, DistanceRange(z))
        THEN LET a == IF s1.zstate[z] = "Inside"
                      THEN FireMark(s1, z, "OnProximity") ELSE s1
             IN  [a EXCEPT !.State[z] = "Distant"]
        ELSE LET a == IF s1.zstate[z] = "Inside"
                      THEN FireMark(s1, z, "OnProximity") ELSE s1
                 b == IF a.zstate[z] \in {"Inside", "Proximity"}
                      THEN FireMark(a, z, "OnDistant") ELSE a
             IN  [b EXCEPT !.State[z] = "NotInRange"]

\* The state-change step recording the new state without invoking On<State>.
StateChange_Silent(s, z) ==
    IF s.State[z] # s.zstate[z]
    THEN [s EXCEPT !.zstate[z] = s.State[z]]
    ELSE s

\* The state-change step invoking On<State> without recording the new state.
StateChange_NoRecord(s, z) ==
    IF s.State[z] # s.zstate[z]
    THEN FireMark(s, z, "On" \o s.State[z])
    ELSE s

\* Lines 619-627: a new State is recorded and its handler On<State> invoked.
StateChange(s, z) ==
    IF s.State[z] # s.zstate[z]
    THEN FireMark([s EXCEPT !.zstate[z] = s.State[z]], z, "On" \o s.State[z])
    ELSE s

\* Lines 594-627: the Zone does not contain the player.
Outside(s, z, v) == StateChange(Classify(s, z, v), z)

\* ZoneStep deciding line 591 on the _inside flag as it was before the tick.
ZoneStep_StaleInside(s, z, loc, v) ==
    IF s.raised THEN s
    ELSE
    LET s1 == ActivationEdge(s, z)
    IN  IF ~s1.Active[z] THEN InactiveZone(s1, z)
        ELSE
        LET inside == IsPointInZone(loc, z)
            s2 == ContainmentEdge([s1 EXCEPT !.evald = @ \cup {z}], z, inside)
        IN  IF s2.raised THEN s2
            ELSE IF s.zinside[z]
            THEN [s2 EXCEPT !.State[z] = "Inside", !.zstate[z] = "Inside"]
            ELSE Outside(s2, z, v[z])

\* ZoneStep writing the State of line 592 in lower case.
ZoneStep_LowerCase(s, z, loc, v) ==
    IF s.raised THEN s
    ELSE
    LET s1 == ActivationEdge(s, z)
    IN  IF ~s1.Active[z] THEN InactiveZone(s1, z)
        ELSE
        LET inside == IsPointInZone(loc, z)
            s2 == ContainmentEdge([s1 EXCEPT !.evald = @ \cup {z}], z, inside)
        IN  IF s2.raised THEN s2
            ELSE IF inside
            THEN [s2 EXCEPT !.State[z] = "inside", !.zstate[z] = "inside"]
            ELSE Outside(s2, z, v[z])

\* One iteration of the loop of line 554, for Zone z.
ZoneStep(s, z, loc, v) ==
    IF s.raised THEN s
    ELSE
    LET s1 == ActivationEdge(s, z)
    IN  IF ~s1.Active[z] THEN InactiveZone(s1, z)
        ELSE
        LET inside == IsPointInZone(loc, z)
            s2 == ContainmentEdge([s1 EXCEPT !.evald = @ \cup {z}], z, inside)
        IN  IF s2.raised THEN s2
            ELSE IF inside
            THEN [s2 EXCEPT !.State[z] = "Inside", !.zstate[z] = "Inside"]
            ELSE Outside(s2, z, v[z])

\* The loop evaluating every Zone on the Active flags and the position as
\* they were when the tick began.
RECURSIVE ZoneLoop_Snapshot(_, _, _, _)
ZoneLoop_Snapshot(s, i, loc, v) ==
    IF i > Len(ZoneOrder) THEN s
    ELSE LET z == ZoneOrder[i]
             r == ZoneStep([s EXCEPT !.Active[z] = Active[z]], z, loc, v)
         IN  ZoneLoop_Snapshot([r EXCEPT !.Active[z] = s.Active[z]], i + 1, loc, v)

\* The loop of line 554 over AllZObjects, in registry order; Active (lines
\* 557, 564) and Player.ObjectLocation (line 569) are read in each iteration.
RECURSIVE ZoneLoop(_, _, _, _)
ZoneLoop(s, i, loc, v) ==
    IF i > Len(ZoneOrder) THEN s
    ELSE ZoneLoop(ZoneStep(s, ZoneOrder[i], s.ObjectLocation, v), i + 1, loc, v)

\* Line 544: Distance ((epx + epy) / 2.), in half metres.
Accuracy(position) ==
    IF position.epx # NoNumber /\ position.epy # NoNumber
    THEN position.epx[1] + position.epy[1]
    ELSE PositionAccuracy

\* Lines 534-538: _time is set and every running timer's Remaining refreshed.
\* The host passes the time of the clock source.
RefreshTimers(time) ==
    /\ ctime' = time
    /\ Remaining' = [t \in Timers |->
                        IF target[t] # NoNumber THEN target[t][1] - time ELSE Remaining[t]]
    /\ UNCHANGED <<clock, target, source, pending>>

\* _update without a position that also forgets the last fix.
UpdateNoPosition_DropsFix ==
    /\ RefreshTimers(clock)
    /\ op' = "UpdateNoPosition"
    /\ arg' = None
    /\ ret' = "False"
    /\ fired' = <<>>
    /\ evald' = {}
    /\ ObjectLocation' = INVALID_ZONEPOINT
    /\ UNCHANGED <<Active, State, zstate, zinside, zactive, CurrentDistance,
                   CurrentBearing, InsideOfZones, PositionAccuracy, lastEdge, gvars>>

\* _update without a position (lines 540-541).
UpdateNoPosition ==
    /\ RefreshTimers(clock)
    /\ op' = "UpdateNoPosition"
    /\ arg' = None
    /\ ret' = "False"
    /\ fired' = <<>>
    /\ evald' = {}
    /\ UNCHANGED <<zvars, gvars>>

\* The Remaining of the timers without the refresh of lines 536-538.
SeenByHandlers_Stale(time) == Remaining

\* Lines 536-538 run before the loop of line 554: the Remaining that the
\* handlers of the tick read.
SeenByHandlers(time) ==
    [t \in Timers |-> IF target[t] # NoNumber THEN target[t][1] - time ELSE Remaining[t]]

\* _update with a position, script being what the handlers do.  No ZItem or
\* ZCharacter has a location of its own and every Zone's OriginalPoint is the
\* default INVALID_ZONEPOINT, so the loop of lines 545-553 skips each object
\* at lines 551-552.
UpdateWith(position, v, script) ==
    LET loc == ZonePoint(position.lat, position.lon)
        s0 == [Active |-> Active, State |-> State, zstate |-> zstate, zinside |-> zinside,
               zactive |-> zactive, CurrentDistance |-> CurrentDistance,
               CurrentBearing |-> CurrentBearing, InsideOfZones |-> InsideOfZones,
               ObjectLocation |-> loc, Remaining |-> SeenByHandlers(clock),
               lastEdge |-> lastEdge,
               script |-> script,
               fired |-> <<>>, update_all |-> FALSE, raised |-> FALSE, evald |-> {}]
    IN  \E s \in {ZoneLoop(s0, 1, loc, v)} :
        /\ RefreshTimers(clock)
        /\ UNCHANGED gvars
        /\ ObjectLocation' = s.ObjectLocation
        /\ PositionAccuracy' = Accuracy(position)
        /\ lastEdge' = s.lastEdge
        /\ Active' = s.Active
        /\ State' = s.State
        /\ zstate' = s.zstate
        /\ zinside' = s.zinside
        /\ zactive' = s.zactive
        /\ CurrentDistance' = s.CurrentDistance
        /\ CurrentBearing' = s.CurrentBearing
        /\ InsideOfZones' = s.InsideOfZones
        /\ op' = "Update"
        /\ arg' = None
        /\ ret' = IF s.raised THEN "raised" ELSE IF s.update_all THEN "True" ELSE "False"
        /\ fired' = s.fired
        /\ evald' = s.evald

\* _update with a position when the handlers touch no object.
Update(position, v) == UpdateWith(position, v, NoScript)

\* The cartridge or the host sets Zone.Active.
SetActive(z, b) ==
    /\ Active[z] # b
    /\ Active' = [Active EXCEPT ![z] = b]
    /\ op' = "SetActive"
    /\ arg' = z
    /\ ret' = None
    /\ fired' = <<>>
    /\ evald' = {}
    /\ UNCHANGED <<State, zstate, zinside, zactive, CurrentDistance, CurrentBearing,
                   InsideOfZones, ObjectLocation, PositionAccuracy, lastEdge>>
    /\ UNCHANGED <<tvars, gvars>>

(***************************************************************************)
(* The clock source (_cb.add_timer, _cb.remove_timer) and ZTimer.          *)
(***************************************************************************)
\* A handle that names no request and is held by no timer.
NewHandle(p, src) ==
    LET used == {r.id : r \in p} \cup {src[t][1] : t \in {u \in Timers : src[u] # NoNumber}}
    IN  CHOOSE n \in 1..(Cardinality(used) + 1) : n \notin used

\* _cb.add_timer (delay, self.Tick): a request due delay seconds from now.
add_timer(p, id, t, delay) == p \cup {[id |-> id, timer |-> t, due |-> clock + delay]}

\* _cb.remove_timer (handle).
remove_timer(p, h) == {r \in p : Some(r.id) # h}

\* A timer handler, when set, is invoked and sees Remaining as rem and
\* _target as tgt.
FireTimer(f, t, h, rem, tgt) ==
    IF HasTimerHandler(t, h) THEN Append(f, <<t, h, rem, tgt>>) ELSE f

\* The calls of the clock source, _cb.add_timer (delay, self.Tick) and
\* _cb.remove_timer (handle), as they appear in the log of an operation.
Asked(f, t, call, delay, h) == Append(f, <<t, call, delay, h>>)

\* Start without the test of lines 661-663: a running timer is started again.
Start_Restarts(t) ==
    /\ Cardinality(pending) < MaxPending
    /\ op' = "Start"
    /\ arg' = t
    /\ evald' = {}
    /\ ret' = None
    /\ UNCHANGED <<zvars, gvars, clock, ctime>>
    /\ LET rem == IF Remaining[t] < 0 THEN Duration(t) ELSE Remaining[t]
           id == NewHandle(pending, source)
       IN  /\ fired' = Asked(FireTimer(<<>>, t, "OnStart", Remaining[t], target[t]),
                              t, "add_timer", rem, Some(id))
           /\ Remaining' = [Remaining EXCEPT ![t] = rem]
           /\ pending' = add_timer(pending, id, t, rem)
           /\ source' = [source EXCEPT ![t] = Some(id)]
           /\ target' = [target EXCEPT ![t] = Some(ctime + Duration(t))]

\* ZTimer.Start (lines 660-671).
Start(t) ==
    /\ Cardinality(pending) < MaxPending
    /\ op' = "Start"
    /\ arg' = t
    /\ evald' = {}
    /\ ret' = None
    /\ UNCHANGED <<zvars, gvars, clock, ctime>>
    /\ IF target[t] # NoNumber
       THEN /\ fired' = <<>>
            /\ UNCHANGED <<Remaining, target, source, pending>>
       ELSE LET rem == IF Remaining[t] < 0 THEN Duration(t) ELSE Remaining[t]
                id == NewHandle(pending, source)
            IN  /\ fired' = Asked(FireTimer(<<>>, t, "OnStart", Remaining[t], target[t]),
                                   t, "add_timer", rem, Some(id))
                /\ Remaining' = [Remaining EXCEPT ![t] = rem]
                /\ pending' = add_timer(pending, id, t, rem)
                /\ source' = [source EXCEPT ![t] = Some(id)]
                /\ target' = [target EXCEPT ![t] = Some(ctime + Duration(t))]

\* ZTimer.Stop (lines 672-682).
Stop(t) ==
    /\ op' = "Stop"
    /\ arg' = t
    /\ evald' = {}
    /\ ret' = None
    /\ UNCHANGED <<zvars, gvars, clock, ctime, Remaining>>
    /\ IF target[t] = NoNumber
       THEN /\ fired' = <<>>
            /\ UNCHANGED <<target, source, pending>>
       ELSE /\ pending' = remove_timer(pending, source[t])
            /\ target' = [target EXCEPT ![t] = NoNumber]
            /\ source' = [source EXCEPT ![t] = NoNumber]
            /\ fired' = FireTimer(Asked(<<>>, t, "remove_timer", 0, source[t]),
                                   t, "OnStop", Remaining[t], NoNumber)

\* _reschedule that leaves the old request with the clock source.
Rescheduled_KeepsOld(st, t) ==
    IF target[t] = NoNumber THEN st
    ELSE LET id == NewHandle(st.pending, st.source)
         IN  [pending |-> add_timer(st.pending, id, t, Remaining[t]),
              source |-> [st.source EXCEPT ![t] = Some(id)],
              fired |-> Asked(Asked(st.fired, t, "remove_timer", 0, st.source[t]),
                              t, "add_timer", Remaining[t], Some(id))]

\* Lines 684-687 on st, the requests, the handles and the log so far: the
\* request of a running timer is removed and one for Remaining is added.
Rescheduled(st, t) ==
    IF target[t] = NoNumber THEN st
    ELSE LET p == remove_timer(st.pending, st.source[t])
             id == NewHandle(p, [st.source EXCEPT ![t] = NoNumber])
         IN  [pending |-> add_timer(p, id, t, Remaining[t]),
              source |-> [st.source EXCEPT ![t] = Some(id)],
              fired |-> Asked(Asked(st.fired, t, "remove_timer", 0, st.source[t]),
                              t, "add_timer", Remaining[t], Some(id))]

\* ZTimer._reschedule (lines 683-687).
_reschedule(t) ==
    /\ op' = "_reschedule"
    /\ arg' = t
    /\ evald' = {}
    /\ ret' = None
    /\ UNCHANGED <<zvars, gvars, clock, ctime, Remaining, target>>
    /\ \E st \in {Rescheduled([pending |-> pending, source |-> source, fired |-> <<>>], t)} :
          /\ pending' = st.pending
          /\ source' = st.source
          /\ fired' = st.fired

\* The timers in the order of ZCartridge.AllZObjects.
TimerOrder == <<"t1", "t2">>

RECURSIVE RescheduledFrom(_, _)
RescheduledFrom(st, i) ==
    IF i > Len(TimerOrder) THEN st
    ELSE RescheduledFrom(Rescheduled(st, TimerOrder[i]), i + 1)

\* ZCartridge._reschedule_timers (lines 629-632).
_reschedule_timers ==
    /\ op' = "_reschedule_timers"
    /\ arg' = None
    /\ evald' = {}
    /\ ret' = None
    /\ UNCHANGED <<zvars, gvars, clock, ctime, Remaining, target>>
    /\ \E st \in {RescheduledFrom([pending |-> pending, source |-> source, fired |-> <<>>], 1)} :
          /\ pending' = st.pending
          /\ source' = st.source
          /\ fired' = st.fired

\* Lines 692-699 without the skip of the remaining time (lines 692-693).
NextTarget_NoSkip(t, now) ==
    LET t1 == target[t][1] + Duration(t)
    IN  IF t1 < now
        THEN [tgt |-> now, rem |-> Duration(t)]
        ELSE [tgt |-> t1, rem |-> t1 - now]

\* Lines 692-699 without the test of lines 697-699.
NextTarget_NoClamp(t, now) ==
    LET t1 == (IF target[t][1] > now THEN now ELSE target[t][1]) + Duration(t)
    IN  [tgt |-> t1, rem |-> t1 - now]

\* Lines 692-699: the new _target and Remaining of an Interval timer.
NextTarget(t, now) ==
    LET t1 == (IF target[t][1] > now THEN now ELSE target[t][1]) + Duration(t)
    IN  IF t1 < now
        THEN [tgt |-> now, rem |-> Duration(t)]
        ELSE [tgt |-> t1, rem |-> t1 - now]

\* The calls of an Interval fire with OnTick invoked before the request.
IntervalCalls_TickFirst(t, rem, tgt, delay, id) ==
    Asked(FireTimer(FireTimer(<<>>, t, "OnStart", rem, Some(tgt)),
                    t, "OnTick", rem, Some(tgt)),
          t, "add_timer", delay, Some(id))

\* Lines 701-704 and 709-711: what the fire of an Interval timer calls, in
\* order: OnStart, _cb.add_timer, OnTick.  Both handlers see the new
\* Remaining and _target.
IntervalCalls(t, rem, tgt, delay, id) ==
    FireTimer(Asked(FireTimer(<<>>, t, "OnStart", rem, Some(tgt)),
                    t, "add_timer", delay, Some(id)),
              t, "OnTick", rem, Some(tgt))

\* The call of a Countdown fire with OnTick invoked before lines 706-708.
CountdownCalls_StillRunning(t) ==
    FireTimer(<<>>, t, "OnTick", Remaining[t], target[t])

\* Lines 706-711: the fire of a Countdown timer calls OnTick after _target,
\* _source and Remaining have been reset.
CountdownCalls(t) == FireTimer(<<>>, t, "OnTick", -1, NoNumber)

\* ZTimer.Tick (lines 688-713) with p the requests the clock source holds
\* when it runs.  On a stopped Interval timer line 694 adds a number to None
\* and raises TypeError before anything is changed.
Tick(t, p) ==
    /\ evald' = {}
    /\ UNCHANGED <<zvars, gvars, clock, ctime>>
    /\ IF Type(t) = "Interval"
       THEN IF target[t] = NoNumber
            THEN /\ ret' = "raised"
                 /\ fired' = <<>>
                 /\ pending' = p
                 /\ UNCHANGED <<Remaining, target, source>>
            ELSE LET now == ctime
                     tgt == NextTarget(t, now).tgt
                     rem == NextTarget(t, now).rem
                     id == NewHandle(p, source)
                 IN  /\ ret' = "False"
                     /\ target' = [target EXCEPT ![t] = Some(tgt)]
                     /\ Remaining' = [Remaining EXCEPT ![t] = rem]
                     /\ pending' = add_timer(p, id, t, tgt - now)
                     /\ source' = [source EXCEPT ![t] = Some(id)]
                     /\ fired' = IntervalCalls(t, rem, tgt, tgt - now, id)
       ELSE /\ ret' = "False"
            /\ target' = [target EXCEPT ![t] = NoNumber]
            /\ source' = [source EXCEPT ![t] = NoNumber]
            /\ Remaining' = [Remaining EXCEPT ![t] = -1]
            /\ pending' = p
            /\ fired' = CountdownCalls(t)

\* The clock source fires a request that is due: the request is gone (Tick
\* returns False, so it is not repeated) and Tick runs.
ScheduledTick(r) ==
    /\ r \in pending
    /\ r.due <= clock
    /\ op' = "ScheduledTick"
    /\ arg' = r.timer
    /\ Tick(r.timer, pending \ {r})

\* The cartridge calls Tick itself.
ManualTick(t) ==
    /\ Cardinality(pending) < MaxPending
    /\ op' = "ManualTick"
    /\ arg' = t
    /\ Tick(t, pending)

\* Time passes at the clock source.
AdvanceClock ==
    /\ clock < MaxTime
    /\ clock' = clock + 1
    /\ op' = "AdvanceClock"
    /\ arg' = None
    /\ ret' = None
    /\ fired' = <<>>
    /\ evald' = {}
    /\ UNCHANGED <<zvars, gvars, ctime, Remaining, target, source, pending>>

(***************************************************************************)
(* The containment graph: ZObject.__init__ and ZObject.MoveTo.             *)
(***************************************************************************)
\* MoveTo that does not take the object out of its old Container's Inventory.
MoveToResult_NoDetach(g, e, owner) ==
    LET g2 == [g EXCEPT !.Container[e] = owner]
    IN  IF owner # None
        THEN [g2 EXCEPT !.Inventory[owner] = Append(@, e)]
        ELSE g2

\* ZObject.MoveTo (lines 371-378) on g = [Container, Inventory].
MoveToResult(g, e, owner) ==
    LET old == g.Container[e]
        g1 == IF old # None /\ InList(e, g.Inventory[old])
              THEN [g EXCEPT !.Inventory[old] = PopFirst(e, @)]
              ELSE g
        g2 == [g1 EXCEPT !.Container[e] = owner]
    IN  IF owner # None
        THEN [g2 EXCEPT !.Inventory[owner] = Append(@, e)]
        ELSE g2

MoveTo(e, owner) ==
    /\ e \in created
    /\ owner \in created \cup {None}
    /\ \E g \in {MoveToResult([Container |-> Container, Inventory |-> Inventory], e, owner)} :
          /\ Container' = g.Container
          /\ Inventory' = g.Inventory
    /\ op' = "MoveTo"
    /\ arg' = e
    /\ ret' = None
    /\ fired' = <<>>
    /\ evald' = {}
    /\ UNCHANGED <<zvars, tvars, created>>

\* ZObject.__init__ (lines 339, 359-360): an item is constructed with a
\* Container argument, which may be None.
Construct(e, owner) ==
    /\ e \in Items \ created
    /\ owner \in created \cup {None}
    /\ created' = created \cup {e}
    /\ \E g \in {IF owner # None
                 THEN MoveToResult([Container |-> [Container EXCEPT ![e] = owner],
                                    Inventory |-> Inventory], e, owner)
                 ELSE [Container |-> Container, Inventory |-> Inventory]} :
          /\ Container' = g.Container
          /\ Inventory' = g.Inventory
    /\ op' = "Construct"
    /\ arg' = e
    /\ ret' = None
    /\ fired' = <<>>
    /\ evald' = {}
    /\ UNCHANGED <<zvars, tvars>>

\* Zone.__init__ (lines 740-756): State has its default, Inside is either.
\* ZTimer.__init__ (lines 652-659).  The session's first _update, at time 0,
\* has set ZCartridge._time.
InitObjects ==
    /\ Active = [z \in Zones |-> TRUE]
    /\ State = [z \in Zones |-> "NotInRange"]
    /\ zinside \in [Zones -> BOOLEAN]
    /\ zstate = [z \in Zones |-> IF zinside[z] THEN "Inside" ELSE "NotInRange"]
    /\ zactive = [z \in Zones |-> TRUE]
    /\ CurrentDistance = [z \in Zones |-> 0]
    /\ CurrentBearing = [z \in Zones |-> 0]
    /\ InsideOfZones = <<>>
    /\ ObjectLocation = INVALID_ZONEPOINT
    /\ PositionAccuracy = 20
    /\ lastEdge = [z \in Zones |-> None]
    /\ clock = 0
    /\ ctime = 0
    /\ Remaining = [t \in Timers |-> -1]
    /\ target = [t \in Timers |-> NoNumber]
    /\ source = [t \in Timers |-> NoNumber]
    /\ pending = {}
    /\ created = {"Player"} \cup Zones
    /\ Container = [e \in Objects |-> None]
    /\ Inventory = [e \in Objects |-> <<>>]

\* No operation has run yet.
Init ==
    /\ InitObjects
    /\ op = "init"
    /\ arg = None
    /\ ret = None
    /\ fired = <<>>
    /\ evald = {}

NextZone ==
    \/ \E position \in Positions, v \in [Zones -> Vectors] : Update(position, v)
    \/ \E z \in Zones, b \in BOOLEAN : SetActive(z, b)

SpecZone == Init /\ [][NextZone]_vars

\* The cartridge as constructed with Inside = False on every Zone.
InitPlain == Init /\ zinside = [z \in Zones |-> FALSE]

\* The ticks of a cartridge whose handlers set Active flags or move the
\* player, and the Active flags set between the ticks.
NextHandlers ==
    \/ \E position \in {PositionInBoth, PositionInNone}, script \in Scripts :
          UpdateWith(position, [z \in Zones |-> VectorFar], script)
    \/ \E z \in Zones, b \in BOOLEAN : SetActive(z, b)

SpecHandlers == InitPlain /\ [][NextHandlers]_vars


NextTimer ==
    \/ \E t \in Timers : Start(t)
    \/ \E t \in Timers : Stop(t)
    \/ \E t \in Timers : _reschedule(t)
    \/ _reschedule_timers
    \/ \E r \in pending : ScheduledTick(r)
    \/ \E t \in Timers : ManualTick(t)
    \/ clock < MaxTimeAll /\ AdvanceClock
    \/ UpdateNoPosition

SpecTimer == InitPlain /\ [][NextTimer]_vars

\* The Interval timer alone, followed for longer: _time falls behind its
\* target by more than its Duration.
NextInterval ==
    \/ Start("t1")
    \/ Stop("t1")
    \/ _reschedule("t1")
    \/ _reschedule_timers
    \/ \E r \in pending : ScheduledTick(r)
    \/ ManualTick("t1")
    \/ AdvanceClock
    \/ UpdateNoPosition

SpecInterval == InitPlain /\ [][NextInterval]_vars

\* The objects that the cartridge moves.
Movers == Items \cup {"Player"}

NextGraph ==
    \/ \E e \in Items, owner \in Objects \cup {None} : Construct(e, owner)
    \/ \E e \in Movers, owner \in Objects \cup {None} : MoveTo(e, owner)

SpecGraph == InitPlain /\ [][NextGraph]_vars

\* The ticks, the operations of the Countdown timer t2 and the moves of the
\* item i1, interleaved.
Next ==
    \/ \E position \in {PositionInBoth, PositionInNone} :
          Update(position, [z \in Zones |-> VectorFar])
    \/ UpdateNoPosition
    \/ Start("t2")
    \/ Stop("t2")
    \/ _reschedule("t2")
    \/ ManualTick("t2")
    \/ \E r \in pending : ScheduledTick(r)
    \/ clock < MaxTimeAll /\ AdvanceClock
    \/ \E owner \in {"z1", None} : Construct("i1", owner)
    \/ \E owner \in {"Player", "z1"} : MoveTo("i1", owner)

Spec == InitPlain /\ [][Next]_vars

(***************************************************************************)
(* Properties of the Zone engine.                                          *)
(***************************************************************************)
\* The handlers a log f records for object z, in order.
FiredOf(f, z) ==
    LET own == SelectSeq(f, LAMBDA e : e[1] = z /\ e[2] \in ZoneHandlers \cup TimerHandlers)
    IN  [k \in 1..Len(own) |-> own[k][2]]

Calls(f, z, h) == Cardinality({k \in 1..Len(f) : f[k][1] = z /\ f[k][2] = h})

Without(l, h) == SelectSeq(l, LAMBDA x : x # h)

Only(l, hs) == SelectSeq(l, LAMBDA x : x \in hs)

\* The handlers among l that Zone z has set, in the order of l.
SetOf(z, l) == SelectSeq(l, LAMBDA h : HasHandler(z, h))

TickDone == op = "Update" /\ ret # "raised"

\* C1 as stated: after a completed tick every Zone whose State is 'Inside'
\* contains the player's position.
C1_Claimed ==
    TickDone => \A z \in Zones : State[z] = "Inside" => IsPointInZone(ObjectLocation, z)

\* C1, amended: after a completed tick every Zone that the tick evaluated as
\* active and whose State is 'Inside' contains the player's position.
C1_InsideContainsPlayer ==
    TickDone => \A z \in evald : State[z] = "Inside" => IsPointInZone(ObjectLocation, z)

C1_Witness ==
    /\ TickDone
    /\ \E z \in evald : State[z] = "Inside" /\ IsPointInZone(ObjectLocation, z)
    /\ \E z \in evald : State[z] # "Inside" /\ ~IsPointInZone(ObjectLocation, z)

\* The case of C2 in a step: the tick evaluates the active Zone z, whose
\* recorded previous state is 'NotInRange', with the player outside the
\* polygon and the distance comparing below ProximityRange.
C2_Case(z) ==
    /\ op' = "Update"
    /\ z \in evald'
    /\ zstate[z] = "NotInRange"
    /\ ~IsPointInZone(ObjectLocation', z)
    /\ DistanceLess(CurrentDistance'[z], ProximityRange(z))

C3_Claimed ==
    [][\A z \in Zones : op' = "Update" /\ z \in evald' =>
          LET inside == IsPointInZone(ObjectLocation', z)
              log == Without(FiredOf(fired', z), "OnSetActive")
          IN  /\ ~zinside[z] /\ inside =>
                   /\ log = SetOf(z, (IF zstate[z] = "NotInRange" THEN <<"OnDistant">> ELSE <<>>)
                                     \o (IF zstate[z] # "Proximity" THEN <<"OnProximity">> ELSE <<>>)
                                     \o <<"OnEnter">>)
                   /\ State'[z] = "Inside"
              /\ zinside[z] /\ inside => log = <<>>
              /\ zinside[z] /\ ~inside =>
                   Calls(fired', z, "OnExit") = (IF HasHandler(z, "OnExit") THEN 1 ELSE 0)]_vars

\* The edges of C10 for Zone z in a step.
ActivationEdgeOf(z) == zactive[z] # Active[z]

ContainmentEdgeOf(z) == InList(z, InsideOfZones) # InList(z, InsideOfZones')

StateEdgeOf(z) == State[z] # State'[z]

\* C10 as stated: a tick with a position (here one that starts with every
\* Zone's containment flag agreeing with the inside set) returns true exactly
\* when some Zone had an activation edge, a containment edge or a change of
\* public State.
C10_Claimed ==
    [][op' = "Update" /\ ret' # "raised" /\ (\A z \in Zones : zinside[z] = InList(z, InsideOfZones)) =>
          (ret' = "True" <=>
              \E z \in Zones : ActivationEdgeOf(z) \/ ContainmentEdgeOf(z) \/ StateEdgeOf(z))]_vars

(***************************************************************************)
(* Properties of the timers.                                               *)
(***************************************************************************)
PendingOf(p, t) == {r \in p : r.timer = t}

\* C4 as stated: after every completed timer operation each timer has either
\* no _target and no pending request, or a _target and exactly one pending
\* request.
C4_Claimed ==
    ret # "raised" =>
        \A t \in Timers :
            \/ target[t] = NoNumber /\ PendingOf(pending, t) = {}
            \/ target[t] # NoNumber /\ Cardinality(PendingOf(pending, t)) = 1

\* C5 as stated: Start() of a stopped Countdown timer immediately followed by
\* Stop() invokes OnStart and then OnStop, and after the Stop no request of the
\* timer remains pending (so that OnTick is not invoked later).
C5_Claimed ==
    [][\A t \in Timers :
          /\ Type(t) = "Countdown"
          /\ op = "Start" /\ arg = t /\ FiredOf(fired, t) = <<"OnStart">>
          /\ op' = "Stop" /\ arg' = t
          => /\ FiredOf(fired', t) = <<"OnStop">>
             /\ PendingOf(pending', t) = {}]_vars

\* The Remaining that the OnTick handler of timer t saw in log f.
SeenByOnTick(f, t) == {e[3] : e \in {f[k] : k \in {j \in 1..Len(f) : f[j][1] = t /\ f[j][2] = "OnTick"}}}

\* A scheduled fire of the running Interval timer t.
C6_Fire(t) ==
    /\ op' = "ScheduledTick" /\ arg' = t
    /\ Type(t) = "Interval"
    /\ target[t] # NoNumber

\* Drift clamping applies: the old target plus Duration lies before now.
C6_Clamped(t) == target[t][1] + Duration(t) < ctime

\* C6 as stated: every scheduled fire of a running Interval timer invokes
\* OnTick once, and where drift clamping does not apply the handler sees
\* Remaining = Duration.
C6_Claimed ==
    [][\A t \in Timers : C6_Fire(t) =>
          /\ Count("OnTick", FiredOf(fired', t)) = 1
          /\ ~C6_Clamped(t) => SeenByOnTick(fired', t) = {Duration(t)}]_vars

\* C6, amended: every scheduled fire of a running Interval timer invokes
\* OnTick once; the handler sees Remaining = Duration where _time has not
\* passed the old target and where drift clamping applies, and otherwise
\* Duration less the time by which _time has passed the old target.
C6_RemainingAtFire ==
    [][\A t \in Timers : C6_Fire(t) =>
          /\ Count("OnTick", FiredOf(fired', t)) = 1
          /\ SeenByOnTick(fired', t) =
                {IF ctime <= target[t][1] \/ C6_Clamped(t)
                 THEN Duration(t)
                 ELSE Duration(t) - (ctime - target[t][1])}]_vars

\* A fire that lags (the handler saw less than Duration) and one that came
\* before _time reached the target (the handler saw Duration).
C6_Witness ==
    /\ op = "ScheduledTick" /\ arg = "t1"
    /\ SeenByOnTick(fired, "t1") = {Duration("t1") - 1}

C6_WitnessOnTime ==
    /\ op = "ScheduledTick" /\ arg = "t1"
    /\ SeenByOnTick(fired, "t1") = {Duration("t1")}
    /\ target["t1"] # Some(ctime)

\* A fire to which drift clamping applied: the new target is _time itself.
C6_WitnessClamped ==
    /\ op = "ScheduledTick" /\ arg = "t1"
    /\ SeenByOnTick(fired, "t1") = {Duration("t1")}
    /\ target["t1"] = Some(ctime)

(***************************************************************************)
(* Properties of the containment graph.                                    *)
(***************************************************************************)
\* C7: every object is in the Inventory of its Container, exactly once, and
\* in no other Inventory.
C7_OneInventory ==
    \A e \in Objects, c \in Objects :
        /\ Count(e, Inventory[c]) <= 1
        /\ InList(e, Inventory[c]) <=> Container[e] = c

\* i1 was moved to the Container that already held it: it is there once,
\* now behind i2.
C7_Witness ==
    /\ op = "MoveTo" /\ arg = "i1"
    /\ Container["i1"] = "z1" /\ Container["i2"] = "z1"
    /\ Inventory["z1"] = <<"i2", "i1">>

\* The objects reached from e by following Container at most n times.
RECURSIVE ContainerChain(_, _)
ContainerChain(e, n) ==
    IF n = 0 \/ Container[e] = None THEN {}
    ELSE {Container[e]} \cup ContainerChain(Container[e], n - 1)

\* C8 as stated: no object is directly or transitively its own Container.
C8_Claimed == \A e \in Objects : e \notin ContainerChain(e, Cardinality(Objects))

(***************************************************************************)
(* The geodesy functions, called on their own.  The arguments of the call  *)
(* are drawn in the initial state and kept in arg; the call leaves the     *)
(* objects alone and its result is ret.                                    *)
(***************************************************************************)
InitCall(inputs) ==
    /\ InitObjects
    /\ zinside = [z \in Zones |-> FALSE]
    /\ op = "init"
    /\ arg \in inputs
    /\ ret = None
    /\ fired = <<>>
    /\ evald = {}

Call(name, result) ==
    /\ op = "init"
    /\ op' = name
    /\ arg' = arg
    /\ ret' = result
    /\ fired' = <<>>
    /\ evald' = {}
    /\ UNCHANGED <<zvars, tvars, gvars>>

\* Points of a coarse grid (degrees), and the zones of three boundary points
\* over it; some of them span more than 90 degrees of longitude.
GridPoints == {ZonePoint(lat, lon) : lat \in {0, 10, 50}, lon \in {0, 20, 50, 100}}

Triangles ==
    {<<a, b, c>> : a \in GridPoints, b \in GridPoints, c \in GridPoints} \
        {t \in {<<a, b, c>> : a \in GridPoints, b \in GridPoints, c \in GridPoints} :
            t[1] = t[2] \/ t[2] = t[3] \/ t[1] = t[3]}

\* The boundary list pts started at its vertex k + 1.
Rotated(pts, k) == [i \in 1..Len(pts) |-> pts[((i + k - 1) % Len(pts)) + 1]]

\* IsPointInZone on a zone and on the same zone with its boundary list
\* started at another vertex.
CallIsPointInZone ==
    Call("IsPointInZone",
         [plain |-> PointInPolygon(arg.point, arg.pts),
          rotated |-> PointInPolygon(arg.point, Rotated(arg.pts, arg.k))])

InitPoly == InitCall([point : GridPoints, pts : Triangles, k : {1, 2}])

NextPoly == CallIsPointInZone

SpecPoly == InitPoly /\ [][NextPoly]_vars

\* Distance (1, 'nauticalmiles') in half metres (line 280).
NauticalMile == 3704

\* Distance (float ('inf')), float ('nan'): the vector to or from no point.
VectorUndefined == [distance |-> "inf", bearing |-> "nan"]

Abs(n) == IF n < 0 THEN -n ELSE n

\* VectorToPoint with the strict comparison p1.latitude < p2.latitude.
VectorToPoint_Strict(p1, p2, general) ==
    IF INVALID_ZONEPOINT \in {p1, p2} THEN VectorUndefined
    ELSE IF p1.longitude = p2.longitude
    THEN [d |-> Abs(p1.latitude - p2.latitude) * 60 * NauticalMile,
          b |-> IF p1.latitude < p2.latitude THEN 0 ELSE 180]
    ELSE general

\* VectorToPoint that computes only the points it is given.
VectorToPoint_NoSentinel(p1, p2, general) ==
    IF INVALID_ZONEPOINT \in {p1, p2} THEN general
    ELSE IF p1.longitude = p2.longitude
    THEN [d |-> Abs(p1.latitude - p2.latitude) * 60 * NauticalMile,
          b |-> IF p1.latitude <= p2.latitude THEN 0 ELSE 180]
    ELSE general

\* VectorToPoint (lines 934-951).  The haversine and bearing arithmetic of
\* lines 941-950 is not computed: general is what it yields.
VectorToPoint(p1, p2, general) ==
    IF INVALID_ZONEPOINT \in {p1, p2} THEN VectorUndefined
    ELSE IF p1.longitude = p2.longitude
    THEN [d |-> Abs(p1.latitude - p2.latitude) * 60 * NauticalMile,
          b |-> IF p1.latitude <= p2.latitude THEN 0 ELSE 180]
    ELSE general

\* VectorToSegment (lines 899-915); general is what lines 904-914 yield.
VectorToSegment(point, p1, p2, general) ==
    IF INVALID_ZONEPOINT \in {point, p1, p2} THEN VectorUndefined ELSE general

\* Lines 926-931: the first of the nearest among the vectors to the segments,
\* taken in the order (last, first), (1, 2), (2, 3), ...
RECURSIVE NearestSegment(_, _, _, _, _)
NearestSegment(point, pts, gens, p, current) ==
    IF p > Len(pts) - 1 THEN current
    ELSE LET this == VectorToSegment(point, pts[p], pts[p + 1], gens[p + 1])
         IN  NearestSegment(point, pts, gens, p + 1,
                            IF DistanceLess(this.d, current.d) THEN this ELSE current)

\* VectorToZone (lines 917-932); gens[k] is the vector to the k-th segment.
VectorToZone(point, pts, gens) ==
    IF point = INVALID_ZONEPOINT THEN VectorUndefined
    ELSE IF PointInPolygon(point, pts) THEN [d |-> 0, b |-> 0]
    ELSE NearestSegment(point, pts, gens, 1,
                        VectorToSegment(point, pts[Len(pts)], pts[1], gens[1]))

\* TranslatePoint (lines 953-967); general is the point lines 961-966 yield.
TranslatePoint(point, distance, bearing, general) ==
    IF point = INVALID_ZONEPOINT THEN point ELSE general

\* The point arguments: the sentinel and four points, two on one meridian
\* north and south of a third.
ValidPoints == {ZonePoint(0, 0), ZonePoint(1, 0), ZonePoint(-1, 0), ZonePoint(1, 2)}

PointArgs == {INVALID_ZONEPOINT} \cup ValidPoints

VectorToPointInputs ==
    [f : {"VectorToPoint"}, p1 : PointArgs, p2 : PointArgs, general : Vectors]

VectorToSegmentInputs ==
    [f : {"VectorToSegment"}, point : PointArgs, p1 : PointArgs, p2 : PointArgs,
     general : Vectors]

VectorToZoneInputs ==
    [f : {"VectorToZone"}, point : PointArgs, zone : Zones, gens : [1..4 -> Vectors]]

TranslatePointInputs ==
    [f : {"TranslatePoint"}, point : PointArgs, distance : {0, 20}, bearing : {0, 90},
     general : ValidPoints]

IsPointInZoneInputs == [f : {"IsPointInZone"}, point : PointArgs, zone : Zones]

CallVectorToPoint ==
    /\ arg.f = "VectorToPoint"
    /\ Call("VectorToPoint", VectorToPoint(arg.p1, arg.p2, arg.general))

CallVectorToSegment ==
    /\ arg.f = "VectorToSegment"
    /\ Call("VectorToSegment", VectorToSegment(arg.point, arg.p1, arg.p2, arg.general))

CallVectorToZone ==
    /\ arg.f = "VectorToZone"
    /\ Call("VectorToZone", VectorToZone(arg.point, Points(arg.zone), arg.gens))

CallTranslatePoint ==
    /\ arg.f = "TranslatePoint"
    /\ Call("TranslatePoint",
            TranslatePoint(arg.point, arg.distance, arg.bearing, arg.general))

CallIsPointInZoneOf ==
    /\ arg.f = "IsPointInZone"
    /\ Call("IsPointInZone", [inside |-> IsPointInZone(arg.point, arg.zone)])

InitVector ==
    InitCall(VectorToPointInputs \cup VectorToSegmentInputs \cup VectorToZoneInputs
             \cup TranslatePointInputs \cup IsPointInZoneInputs)

NextVector ==
    \/ CallVectorToPoint
    \/ CallVectorToSegment
    \/ CallVectorToZone
    \/ CallTranslatePoint
    \/ CallIsPointInZoneOf

SpecVector == InitVector /\ [][NextVector]_vars

\* The longitudes of the boundary points lie within less than 90 degrees.
Narrow(pts) == \A i, j \in 1..Len(pts) : pts[i].longitude - pts[j].longitude < 90

\* C13 as stated: IsPointInZone returns the same result when the boundary
\* point list is rotated to start at a different vertex.
C13_Claimed ==
    op = "IsPointInZone" => ret.plain = ret.rotated

\* What remains: rotation invariance for the zones narrower than 90 degrees.
C13_NarrowZones ==
    op = "IsPointInZone" /\ Narrow(arg.pts) => ret.plain = ret.rotated

C13_WitnessNarrow ==
    op = "IsPointInZone" /\ Narrow(arg.pts) /\ ret.plain /\ ret.rotated

(***************************************************************************)
(* ZObject._is_visible, called on its own.  An object is its class and its *)
(* fields; its Container is None, the Player, or an object.                *)
(***************************************************************************)
ShowObjectsValues == {"OnEnter", "OnProximity", "Always", "Never"}

\* The Container that is None, and the one that is the Player.
NoContainer == [none |-> TRUE]

PlayerContainer == [class |-> "Player"]

ContainerArgs ==
    {NoContainer, PlayerContainer}
        \cup [class : {"Zone"}, Active : BOOLEAN, ShowObjects : ShowObjectsValues,
              State : ZoneStates]
        \cup [class : {"ZItem"}, Active : BOOLEAN]

\* _is_visible where 'OnProximity' admits the State 'Proximity' alone.
_is_visible_ProximityAlone(self, debug) ==
    IF ~(debug \/ (self.Active /\ self.Visible)) THEN FALSE
    ELSE IF self.class = "Zone" THEN TRUE
    ELSE IF self.Container = NoContainer THEN FALSE
    ELSE IF self.Container = PlayerContainer THEN TRUE
    ELSE IF ~self.Container.Active \/ self.Container.class # "Zone" THEN FALSE
    ELSE IF self.Container.ShowObjects = "OnEnter" THEN self.Container.State = "Inside"
    ELSE IF self.Container.ShowObjects = "OnProximity"
    THEN self.Container.State = "Proximity"
    ELSE TRUE

\* ZObject._is_visible (lines 379-400).  A ShowObjects that is none of the
\* three known values is reported and the object is visible (lines 398-400).
_is_visible(self, debug) ==
    IF ~(debug \/ (self.Active /\ self.Visible)) THEN FALSE
    ELSE IF self.class = "Zone" THEN TRUE
    ELSE IF self.Container = NoContainer THEN FALSE
    ELSE IF self.Container = PlayerContainer THEN TRUE
    ELSE IF ~self.Container.Active \/ self.Container.class # "Zone" THEN FALSE
    ELSE IF self.Container.ShowObjects = "OnEnter" THEN self.Container.State = "Inside"
    ELSE IF self.Container.ShowObjects = "OnProximity"
    THEN self.Container.State \in {"Inside", "Proximity"}
    ELSE TRUE

Call_is_visible ==
    Call("_is_visible", [visible |-> _is_visible(arg.self, arg.debug)])

InitVisible ==
    InitCall([self : [class : {"Zone", "ZItem"}, Active : BOOLEAN, Visible : BOOLEAN,
                      Container : ContainerArgs],
              debug : BOOLEAN])

NextVisible == Call_is_visible

SpecVisible == InitVisible /\ [][NextVisible]_vars

(***************************************************************************)
(* The Zone State and the other operations.                                *)
(***************************************************************************)
NotTicks == {"Start", "Stop", "ScheduledTick", "ManualTick", "_reschedule", "MoveTo", "Construct"}

\* C9: State is always one of the four values, and ZTimer.Start, Stop, Tick,
\* _reschedule and ZObject.MoveTo leave the State of every Zone unchanged.
C9_StateOnlyByTick ==
    /\ [](State \in [Zones -> ZoneStates])
    /\ [][op' \in NotTicks => State' = State]_vars

\* A tick has made z1 'Inside', and then, with the timer t2 running, i1 was
\* moved to the player.
C9_Witness ==
    /\ op = "MoveTo"
    /\ State["z1"] = "Inside"
    /\ target["t2"] # NoNumber
    /\ Container["i1"] = "Player"

(***************************************************************************)
(* A tick without a position.                                              *)
(***************************************************************************)
\* C11: a tick called with an absent position returns false and leaves
\* Player.ObjectLocation and PositionAccuracy, every Zone's State,
\* containment flag and activation tracker, the inside set and every
\* CurrentDistance and CurrentBearing unchanged, and invokes no handler.
C11_NoPositionFrame ==
    [][op' = "UpdateNoPosition" =>
          /\ ret' = "False"
          /\ fired' = <<>>
          /\ UNCHANGED <<ObjectLocation, PositionAccuracy, State, zstate, zinside, zactive,
                         InsideOfZones, CurrentDistance, CurrentBearing>>]_vars

\* A tick without a position after a tick that put the player inside z1.
C11_Witness ==
    /\ op = "UpdateNoPosition"
    /\ ObjectLocation = ZonePoint(PositionInBoth.lat, PositionInBoth.lon)
    /\ State["z1"] = "Inside"
    /\ InList("z1", InsideOfZones)

(***************************************************************************)
(* Start and Stop that do nothing.                                         *)
(***************************************************************************)
\* C12: Start() on a running timer and Stop() on a timer that is not running
\* return normally, invoke no handler, ask nothing of the clock source, and
\* leave _target, _source, Remaining and the pending requests unchanged.
C12_NoOps ==
    [][\A t \in Timers :
          \/ op' = "Start" /\ arg' = t /\ target[t] # NoNumber
          \/ op' = "Stop" /\ arg' = t /\ target[t] = NoNumber
          => /\ ret' # "raised"
             /\ fired' = <<>>
             /\ UNCHANGED <<target, source, Remaining, pending>>]_vars

\* Start() was called on the Interval timer while it was running with its
\* request pending.
C12_Witness ==
    /\ op = "Start" /\ arg = "t1" /\ fired = <<>>
    /\ target["t1"] # NoNumber
    /\ PendingOf(pending, "t1") # {}

\* Stop() was called on the Countdown timer while it was not running.
C12_WitnessStop ==
    /\ op = "Stop" /\ arg = "t2" /\ fired = <<>>
    /\ target["t2"] = NoNumber
    /\ target["t1"] # NoNumber

(***************************************************************************)
(* The vector between two points of one meridian.                          *)
(***************************************************************************)
\* C14: for two valid points with equal longitude VectorToPoint returns the
\* distance 60 * |p1.latitude - p2.latitude| nautical miles and the bearing 0
\* when p2 is at or north of p1 and 180 otherwise; VectorToPoint (p, p) is
\* (0, 0).
C14_Meridian ==
    /\ op = "VectorToPoint"
    /\ INVALID_ZONEPOINT \notin {arg.p1, arg.p2}
    /\ arg.p1.longitude = arg.p2.longitude
    => /\ ret.d = 60 * Abs(arg.p1.latitude - arg.p2.latitude) * NauticalMile
       /\ ret.b = IF arg.p2.latitude >= arg.p1.latitude THEN 0 ELSE 180
       /\ arg.p1 = arg.p2 => ret = [d |-> 0, b |-> 0]

\* VectorToPoint (p, p) has been called.
C14_Witness ==
    /\ op = "VectorToPoint"
    /\ arg.p1 = ZonePoint(1, 0) /\ arg.p2 = arg.p1
    /\ ret = [d |-> 0, b |-> 0]

\* VectorToPoint has been called from a point to one south of it.
C14_WitnessSouth ==
    /\ op = "VectorToPoint"
    /\ arg.p1 = ZonePoint(1, 0) /\ arg.p2 = ZonePoint(-1, 0)
    /\ ret = [d |-> 120 * NauticalMile, b |-> 180]

(***************************************************************************)
(* The invalid point.                                                      *)
(***************************************************************************)
\* A point argument of the call is INVALID_ZONEPOINT.
C15_InvalidArgument ==
    \/ op = "VectorToPoint" /\ INVALID_ZONEPOINT \in {arg.p1, arg.p2}
    \/ op = "VectorToSegment" /\ INVALID_ZONEPOINT \in {arg.point, arg.p1, arg.p2}
    \/ op \in {"VectorToZone", "TranslatePoint", "IsPointInZone"} /\ arg.point = INVALID_ZONEPOINT

\* C15: with INVALID_ZONEPOINT as a point argument VectorToPoint,
\* VectorToSegment and VectorToZone return the infinite distance and the
\* undefined bearing, TranslatePoint returns INVALID_ZONEPOINT, and
\* IsPointInZone returns false for every zone.
C15_Absorbing ==
    C15_InvalidArgument =>
        /\ op \in {"VectorToPoint", "VectorToSegment", "VectorToZone"} => ret = VectorUndefined
        /\ op = "TranslatePoint" => ret = INVALID_ZONEPOINT
        /\ op = "IsPointInZone" => ret = [inside |-> FALSE]

\* VectorToSegment has been called with a valid point and a segment that
\* ends in INVALID_ZONEPOINT.
C15_Witness ==
    /\ op = "VectorToSegment"
    /\ arg.point # INVALID_ZONEPOINT /\ arg.p1 # INVALID_ZONEPOINT
    /\ arg.p2 = INVALID_ZONEPOINT
    /\ ret = VectorUndefined

(***************************************************************************)
(* Visibility.                                                             *)
(***************************************************************************)
\* The Container is an object, of class Zone, and Active.
C16_InActiveZone(c) == c \notin {NoContainer, PlayerContainer} /\ c.class = "Zone" /\ c.Active

\* The ShowObjects of Zone c admits its State.
C16_Admits(c) ==
    \/ c.ShowObjects = "OnEnter" /\ c.State = "Inside"
    \/ c.ShowObjects = "OnProximity" /\ c.State \in {"Inside", "Proximity"}
    \/ c.ShowObjects = "Always"

\* C16: _is_visible is false unless debug or (Active and Visible); given
\* that, it is true for a Zone and for an object whose Container is the
\* Player, false for an object with no Container or whose Container is not an
\* Active Zone, and in an Active Zone with one of the three ShowObjects
\* policies it is true iff the policy admits the Zone's State.
C16_Visible ==
    op = "_is_visible" =>
        LET self == arg.self
            c == self.Container
        IN  IF ~(arg.debug \/ (self.Active /\ self.Visible)) THEN ~ret.visible
            ELSE /\ self.class = "Zone" => ret.visible
                 /\ self.class # "Zone" /\ c = PlayerContainer => ret.visible
                 /\ self.class # "Zone" /\ c = NoContainer => ~ret.visible
                 /\ self.class # "Zone" /\ c # PlayerContainer /\ ~C16_InActiveZone(c) => ~ret.visible
                 /\ self.class # "Zone" /\ C16_InActiveZone(c)
                       /\ c.ShowObjects \in {"OnEnter", "OnProximity", "Always"}
                    => (ret.visible <=> C16_Admits(c))

\* An item in an Active Zone that shows its objects 'OnProximity' and whose
\* State is 'Inside' is visible without debug.
C16_Witness ==
    /\ op = "_is_visible"
    /\ arg.self.class = "ZItem" /\ ~arg.debug
    /\ C16_InActiveZone(arg.self.Container)
    /\ arg.self.Container.ShowObjects = "OnProximity"
    /\ arg.self.Container.State = "Inside"
    /\ ret.visible

(***************************************************************************)
(* The order of a fire.                                                    *)
(***************************************************************************)
\* The entries of timer t in log f, and the calls they name.
EntriesOf(f, t) == SelectSeq(f, LAMBDA e : e[1] = t)

NamesOf(f, t) == [k \in 1..Len(EntriesOf(f, t)) |-> EntriesOf(f, t)[k][2]]

\* The place of the first call named c of timer t in log f; 0 if none.
PlaceOf(f, t, c) ==
    IF \E k \in 1..Len(f) : f[k][1] = t /\ f[k][2] = c
    THEN CHOOSE k \in 1..Len(f) :
            /\ f[k][1] = t /\ f[k][2] = c
            /\ \A j \in 1..(k - 1) : ~(f[j][1] = t /\ f[j][2] = c)
    ELSE 0

\* C17 as stated: on a scheduled fire of a running Interval timer OnTick is
\* invoked with the new target in place, and the next scheduling request is
\* issued only after the handler.
C17_Claimed ==
    [][\A t \in Timers : C6_Fire(t) =>
          /\ PlaceOf(fired', t, "OnTick") > 0
          /\ fired'[PlaceOf(fired', t, "OnTick")][4] = target'[t]
          /\ PlaceOf(fired', t, "OnTick") < PlaceOf(fired', t, "add_timer")]_vars

\* C17, amended: on a scheduled fire of a running Interval timer the new
\* target is computed first, then OnStart is invoked, then the next
\* scheduling request is issued with delay _target - now, and only then is
\* OnTick invoked; both handlers see the new _target.
C17_RequestThenOnTick ==
    [][\A t \in Timers : C6_Fire(t) =>
          /\ NamesOf(fired', t) = <<"OnStart", "add_timer", "OnTick">>
          /\ \A k \in {1, 3} : EntriesOf(fired', t)[k][4] = target'[t]
          /\ EntriesOf(fired', t)[2][3] = target'[t][1] - ctime
          /\ EntriesOf(fired', t)[2][4] = source'[t]
          /\ \E r \in pending' :
                /\ Some(r.id) = source'[t] /\ r.timer = t
                /\ r.due = clock + (target'[t][1] - ctime)]_vars

\* A scheduled fire of the Interval timer that issued a request with a
\* positive delay before its OnTick.
C17_Witness ==
    /\ op = "ScheduledTick" /\ arg = "t1"
    /\ PlaceOf(fired, "t1", "add_timer") = 2
    /\ PlaceOf(fired, "t1", "OnTick") = 3
    /\ fired[2][3] = Duration("t1")

\* A scheduled fire of Countdown timer t.
C18_Fire(t) == op' = "ScheduledTick" /\ arg' = t /\ Type(t) = "Countdown"

\* C18 as stated: on a scheduled fire of a Countdown timer OnTick is invoked
\* once and the timer becomes stopped after the handler, which still sees the
\* timer as running.
C18_Claimed ==
    [][\A t \in Timers : C18_Fire(t) /\ target[t] # NoNumber =>
          /\ Count("OnTick", NamesOf(fired', t)) = 1
          /\ target'[t] = NoNumber /\ source'[t] = NoNumber /\ Remaining'[t] = -1
          /\ fired'[PlaceOf(fired', t, "OnTick")][4] # NoNumber]_vars

\* C18, amended: on a scheduled fire of a Countdown timer the timer becomes
\* stopped (_target None, _source None, Remaining -1) first and then OnTick is
\* invoked, exactly once: the handler sees a stopped timer with Remaining -1.
\* Nothing is asked of the clock source.
C18_StoppedThenOnTick ==
    [][\A t \in Timers : C18_Fire(t) =>
          /\ NamesOf(fired', t) = <<"OnTick">>
          /\ target'[t] = NoNumber /\ source'[t] = NoNumber /\ Remaining'[t] = -1
          /\ fired'[1][3] = -1 /\ fired'[1][4] = NoNumber
          /\ pending' \subseteq pending
          /\ Cardinality(pending') = Cardinality(pending) - 1]_vars

\* The scheduled fire of the running Countdown timer has happened, with no
\* request of it left.
C18_Witness ==
    /\ op = "ScheduledTick" /\ arg = "t2"
    /\ NamesOf(fired, "t2") = <<"OnTick">>
    /\ target["t2"] = NoNumber
    /\ PendingOf(pending, "t2") = {}
    /\ clock = Duration("t2")

(***************************************************************************)
(* Drift.                                                                  *)
(***************************************************************************)
\* A fire, scheduled or manual, of the running Interval timer t.
C19_Fire(t) ==
    /\ op' \in {"ScheduledTick", "ManualTick"} /\ arg' = t
    /\ Type(t) = "Interval"
    /\ target[t] # NoNumber

\* C19: on every fire of an Interval timer the new _target is not earlier
\* than the current time and the delay passed to the clock source is not
\* negative; when old target + Duration lies before now the target is now.
C19_NeverElapsed ==
    [][\A t \in Timers : C19_Fire(t) =>
          /\ target'[t][1] >= ctime
          /\ fired'[PlaceOf(fired', t, "add_timer")][3] = target'[t][1] - ctime
          /\ fired'[PlaceOf(fired', t, "add_timer")][3] >= 0
          /\ \A r \in pending' \ pending : r.due >= clock
          /\ target[t][1] + Duration(t) < ctime => target'[t] = Some(ctime)]_vars

\* A fire of the Interval timer that found the old target more than Duration
\* behind: the request has delay 0 and OnTick saw Remaining = Duration.
C19_Witness ==
    /\ op \in {"ScheduledTick", "ManualTick"} /\ arg = "t1" /\ ret = "False"
    /\ fired = IntervalCalls("t1", Duration("t1"), ctime, 0, source["t1"][1])
    /\ ctime > Duration("t1") + 1

(***************************************************************************)
(* _reschedule.                                                            *)
(***************************************************************************)
\* Timer t, running, had the request named by its _source replaced by one new
\* request with delay Remaining.
C20_Replaced(t) ==
    /\ source'[t] # NoNumber
    /\ \E r \in pending' :
          /\ Some(r.id) = source'[t] /\ r.timer = t /\ r.due = clock + Remaining[t]
          /\ PendingOf(pending', t) =
                {q \in PendingOf(pending, t) : Some(q.id) # source[t]} \cup {r}
    /\ NamesOf(fired', t) = <<"remove_timer", "add_timer">>
    /\ EntriesOf(fired', t)[2][3] = Remaining[t]

\* C20: _reschedule on a running timer cancels its pending request and issues
\* exactly one new request with delay Remaining; _target and Remaining are
\* unchanged and no handler is invoked; on a stopped timer it does nothing.
\* _reschedule_timers does this for every timer.
C20_Reschedule ==
    [][\A t \in Timers :
          \/ op' = "_reschedule" /\ arg' = t
          \/ op' = "_reschedule_timers"
          => /\ UNCHANGED <<target, Remaining>>
             /\ FiredOf(fired', t) = <<>>
             /\ target[t] # NoNumber => C20_Replaced(t)
             /\ target[t] = NoNumber =>
                   /\ source'[t] = source[t]
                   /\ PendingOf(pending', t) = PendingOf(pending, t)
                   /\ NamesOf(fired', t) = <<>>]_vars

\* _reschedule was called on the running Interval timer when its Remaining
\* was no longer its Duration.
C20_Witness ==
    /\ op = "_reschedule" /\ arg = "t1"
    /\ target["t1"] # NoNumber
    /\ Remaining["t1"] # Duration("t1")
    /\ \E r \in pending : Some(r.id) = source["t1"] /\ r.due = clock + Remaining["t1"]

\* _reschedule_timers ran with both timers running.
C20_WitnessAll ==
    /\ op = "_reschedule_timers"
    /\ NamesOf(fired, "t1") = <<"remove_timer", "add_timer">>
    /\ NamesOf(fired, "t2") = <<"remove_timer", "add_timer">>

(***************************************************************************)
(* The tick and the timers.                                                *)
(***************************************************************************)
\* C21: in every tick, with or without a position, a timer with a set target
\* gets Remaining = _target - now, a timer with no target keeps its
\* Remaining, and every Zone handler the tick invokes reads those values.
C21_FreshRemaining ==
    [][op' \in {"Update", "UpdateNoPosition"} =>
          /\ \A t \in Timers :
                Remaining'[t] = IF target[t] # NoNumber
                                THEN target[t][1] - ctime'
                                ELSE Remaining[t]
          /\ \A k \in 1..Len(fired') : fired'[k][3] = Remaining']_vars

\* A tick with a position invoked a Zone handler while the Countdown timer
\* was running with a Remaining that the tick itself had to compute.
C21_Witness ==
    /\ op = "Update"
    /\ fired # <<>>
    /\ target["t2"] # NoNumber
    /\ Remaining["t2"] = target["t2"][1] - ctime
    /\ Remaining["t2"] # Duration("t2")
    /\ fired[1][3] = Remaining

(***************************************************************************)
(* The steps of the Zone loop.                                             *)
(***************************************************************************)
\* C22 as stated: after a tick, an active Zone that does not contain the
\* player has State 'Proximity' iff its distance is below ProximityRange,
\* otherwise 'Distant' iff DistanceRange is negative or the distance is below
\* DistanceRange, otherwise 'NotInRange'.
C22_Claimed ==
    TickDone =>
        \A z \in evald :
            ~IsPointInZone(ObjectLocation, z) =>
                State[z] = IF CurrentDistance[z] < ProximityRange(z)
                           THEN "Proximity"
                           ELSE IF DistanceRange(z) < 0 \/ CurrentDistance[z] < DistanceRange(z)
                           THEN "Distant"
                           ELSE "NotInRange"

\* The classification with `below` read as the comparison Distance.__cmp__
\* makes, which takes a difference of less than a metre for equality.
C22_AsCompared ==
    TickDone =>
        \A z \in evald :
            ~IsPointInZone(ObjectLocation, z) =>
                State[z] = IF DistanceLess(CurrentDistance[z], ProximityRange(z))
                           THEN "Proximity"
                           ELSE IF \/ DistanceLess(DistanceRange(z), 0)
                                   \/ DistanceLess(CurrentDistance[z], DistanceRange(z))
                           THEN "Distant"
                           ELSE "NotInRange"

\* The case of C23 in a step: a completed tick evaluates the active Zone z
\* and computes a State that differs from the recorded previous state.
C23_Case(z) ==
    /\ op' = "Update"
    /\ ret' # "raised"
    /\ z \in evald'
    /\ State'[z] # zstate[z]

C24_Case(z) ==
    /\ op' = "Update"
    /\ ret' # "raised"
    /\ z \notin evald'

\* What lines 564-568 do in that case: a Zone of the inside set is removed
\* and the tick reports a change; the Zone is not in the set afterwards; none
\* of its containment or state handlers is invoked; State, CurrentDistance
\* and CurrentBearing are unchanged.
C24_Skipped(z) ==
    /\ InList(z, InsideOfZones) => ret' = "True"
    /\ ~InList(z, InsideOfZones')
    /\ Without(FiredOf(fired', z), "OnSetActive") = <<>>
    /\ State'[z] = State[z]
    /\ CurrentDistance'[z] = CurrentDistance[z]
    /\ CurrentBearing'[z] = CurrentBearing[z]

C25_ToggledBack(z) == op = "SetActive" /\ arg = z /\ Active[z] = zactive[z]

\* C25 as stated: a completed tick invokes OnSetActive (when set) for a Zone
\* whose Active flag differs from the tracker, and updates the tracker; for a
\* Zone that was toggled and toggled back between ticks it invokes the
\* handler twice.
C25_Claimed ==
    [][\A z \in Zones : op' = "Update" /\ ret' # "raised" =>
          /\ zactive[z] # Active[z] =>
                /\ Calls(fired', z, "OnSetActive")
                      = (IF HasHandler(z, "OnSetActive") THEN 1 ELSE 0)
                /\ zactive'[z] = Active[z]
          /\ C25_ToggledBack(z) /\ HasHandler(z, "OnSetActive") =>
                Calls(fired', z, "OnSetActive") >= 2]_vars

\* What the code does: the handler is invoked once on a difference between
\* the flag and the tracker, and not at all otherwise, however often the flag
\* was set in between.
C25_ActivationEdge ==
    [][\A z \in Zones : op' = "Update" /\ ret' # "raised" =>
          /\ zactive'[z] = Active[z]
          /\ Calls(fired', z, "OnSetActive")
                = (IF zactive[z] # Active[z] /\ HasHandler(z, "OnSetActive") THEN 1 ELSE 0)]_vars

\* C26: within one tick each Zone's Active flag and the player's position are
\* read when that Zone is evaluated: when a handler invoked for the earlier
\* Zone z1 deactivates the later Zone z2, the same tick treats z2 as inactive
\* (it is not evaluated, no containment or state handler is invoked for it,
\* its State and containment flag are not recomputed, it is not in the inside
\* set, and the activation step has recorded the new flag); and the
\* containment of an evaluated z2 is that of the position a handler of z1
\* left.
C26_ReadWhenEvaluated ==
    [][op' = "Update" /\ ret' # "raised" =>
          /\ Active["z2"] /\ ~Active'["z2"] =>
                /\ "z2" \notin evald'
                /\ Without(FiredOf(fired', "z2"), "OnSetActive") = <<>>
                /\ State'["z2"] = State["z2"]
                /\ zstate'["z2"] = zstate["z2"]
                /\ zinside'["z2"] = zinside["z2"]
                /\ CurrentDistance'["z2"] = CurrentDistance["z2"]
                /\ ~InList("z2", InsideOfZones')
                /\ zactive'["z2"] = FALSE
          /\ "z2" \in evald' =>
                zinside'["z2"] = IsPointInZone(ObjectLocation', "z2")]_vars

\* The player entered z1, whose OnEnter handler deactivated z2: the tick did
\* not evaluate z2 although the player stands in it.
C26_Witness ==
    /\ TickDone
    /\ Calls(fired, "z1", "OnEnter") = 1
    /\ Calls(fired, "z2", "SetActive") = 1
    /\ ~Active["z2"]
    /\ "z1" \in evald
    /\ "z2" \notin evald
    /\ IsPointInZone(ObjectLocation, "z2")
    /\ State["z2"] # "Inside"

\* The player entered z1, whose OnEnter handler moved the player out of both
\* Zones: the tick found z1 to contain the player and z2, which surrounds z1,
\* not to.
C26_WitnessMoved ==
    /\ TickDone
    /\ Calls(fired, "Player", "MovePlayer") = 1
    /\ evald = Zones
    /\ zinside["z1"]
    /\ ~zinside["z2"]

(***************************************************************************)
(* ZObject.Contains (lines 361-370).                                       *)
(***************************************************************************)
\* The loop of lines 365-370 from p.  After n more steps without an answer the
\* walk has been at some object twice and never leaves the cycle.
RECURSIVE ChainWalk(_, _, _)
ChainWalk(self, p, n) ==
    IF p = self THEN "True"
    ELSE IF Container[p] = None THEN "False"
    ELSE IF n = 0 THEN "diverges"
    ELSE ChainWalk(self, Container[p], n - 1)

\* What self.Contains (obj) returns.  IsPointInZone returns False for an
\* invalid point before it reads zone.Points, which only a Zone has.
ContainsResult(self, obj) ==
    IF obj = "Player"
    THEN IF ObjectLocation = INVALID_ZONEPOINT THEN "False"
         ELSE IF self \notin Zones THEN "raised"
         ELSE IF IsPointInZone(ObjectLocation, self) THEN "True" ELSE "False"
    ELSE ChainWalk(self, obj, Cardinality(Objects))

Contains(self, obj) ==
    /\ self \in created
    /\ obj \in created
    /\ op' = "Contains"
    /\ arg' = <<self, obj>>
    /\ ret' = ContainsResult(self, obj)
    /\ fired' = <<>>
    /\ evald' = {}
    /\ UNCHANGED <<zvars, tvars, gvars>>

\* The moves, a tick that gives the player a position, and the queries.
NextContains ==
    \/ \E e \in Items, owner \in Objects \cup {None} : Construct(e, owner)
    \/ \E e \in Movers, owner \in Objects \cup {None} : MoveTo(e, owner)
    \/ Update(PositionInOne, [z \in Zones |-> VectorFar])
    \/ \E self \in Objects, obj \in Objects : Contains(self, obj)

SpecContains == InitPlain /\ [][NextContains]_vars

\* C27 as stated: for b other than the Player, a.Contains (b) terminates on
\* every graph that MoveTo produces and is true iff a is b or is reached from
\* b by following Container; for b the Player it is IsPointInZone of the
\* player's position and a, whatever the Player's Container is.
C27_Claimed ==
    op = "Contains" =>
        LET a == arg[1]
            b == arg[2]
        IN  /\ ret # "diverges"
            /\ b # "Player" =>
                  (ret = "True") = (a = b \/ a \in ContainerChain(b, Cardinality(Objects)))
            /\ b = "Player" /\ a \in Zones =>
                  (ret = "True") = IsPointInZone(ObjectLocation, a)

\* The answers of the calls that return.
C27_WhenItReturns ==
    op = "Contains" /\ ret \in {"True", "False"} =>
        LET a == arg[1]
            b == arg[2]
        IN  /\ b # "Player" =>
                  (ret = "True") = (a = b \/ a \in ContainerChain(b, Cardinality(Objects)))
            /\ b = "Player" /\ a \in Zones =>
                  (ret = "True") = IsPointInZone(ObjectLocation, a)

(***************************************************************************)
(* ZTimer.Tick of an Interval timer whose handler calls self.Stop ().      *)
(***************************************************************************)
\* Lines 676-681 run from inside Tick: the request named by _source is
\* removed, _target and _source are cleared and OnStop is invoked.  st is the
\* requests, the handle and the log when the handler runs.
StoppedInside(st, t, rem) ==
    [pending |-> remove_timer(st.pending, st.source),
     source |-> NoNumber,
     fired |-> FireTimer(Asked(st.fired, t, "remove_timer", 0, st.source),
                         t, "OnStop", rem, NoNumber)]

\* Tick (lines 688-713) of the running Interval timer t whose handler h calls
\* self.Stop (), with p the requests the clock source holds.  When h is
\* OnStart, Stop has cleared _target before line 704 computes
\* self._target - now: None - now raises TypeError and Tick fails before
\* add_timer and OnTick.  When h is OnTick, Stop removes the request that
\* line 704 has just added.
TickStopping(t, p, h) ==
    /\ Type(t) = "Interval"
    /\ target[t] # NoNumber
    /\ evald' = {}
    /\ UNCHANGED <<zvars, gvars, clock, ctime>>
    /\ LET now == ctime
           tgt == NextTarget(t, now).tgt
           rem == NextTarget(t, now).rem
           id == NewHandle(p, source)
           onstart == FireTimer(<<>>, t, "OnStart", rem, Some(tgt))
       IN  /\ Remaining' = [Remaining EXCEPT ![t] = rem]
           /\ target' = [target EXCEPT ![t] = NoNumber]
           /\ source' = [source EXCEPT ![t] = NoNumber]
           /\ IF h = "OnStart"
              THEN \E st \in {StoppedInside([pending |-> p, source |-> source[t],
                                             fired |-> onstart], t, rem)} :
                      /\ ret' = "raised"
                      /\ pending' = st.pending
                      /\ fired' = st.fired
              ELSE \E st \in {StoppedInside(
                                [pending |-> add_timer(p, id, t, tgt - now),
                                 source |-> Some(id),
                                 fired |-> FireTimer(Asked(onstart, t, "add_timer",
                                                           tgt - now, Some(id)),
                                                     t, "OnTick", rem, Some(tgt))],
                                t, rem)} :
                      /\ ret' = "False"
                      /\ pending' = st.pending
                      /\ fired' = st.fired

\* The clock source fires a due request of such a timer.
ScheduledTickStopping(r, h) ==
    /\ r \in pending
    /\ r.due <= clock
    /\ op' = "ScheduledTick"
    /\ arg' = r.timer
    /\ TickStopping(r.timer, pending \ {r}, h)

\* The cartridge calls Tick of such a timer itself.
ManualTickStopping(t, h) ==
    /\ op' = "ManualTick"
    /\ arg' = t
    /\ TickStopping(t, pending, h)

\* The Interval timer with handlers that may stop it.
NextStopping ==
    \/ Start("t1")
    \/ Stop("t1")
    \/ \E r \in pending : ScheduledTick(r)
    \/ ManualTick("t1")
    \/ \E r \in pending, h \in {"OnStart", "OnTick"} : ScheduledTickStopping(r, h)
    \/ \E h \in {"OnStart", "OnTick"} : ManualTickStopping("t1", h)
    \/ AdvanceClock
    \/ UpdateNoPosition

SpecStopping == InitPlain /\ [][NextStopping]_vars

\* A Tick of timer t during which one of its handlers called Stop.
C28_Case(t) ==
    /\ op' \in {"ScheduledTick", "ManualTick"}
    /\ arg' = t
    /\ Type(t) = "Interval"
    /\ PlaceOf(fired', t, "OnStop") # 0

\* C28 as stated: when a handler invoked during an Interval timer's Tick
\* (OnStart or OnTick) calls Stop () on that timer, the Tick completes without
\* failure and leaves the timer stopped, with no scheduling request pending.
C28_Claimed ==
    [][\A t \in Timers : C28_Case(t) =>
          /\ ret' # "raised"
          /\ target'[t] = NoNumber
          /\ PendingOf(pending', t) = {}]_vars

\* What holds: the timer is left stopped either way; when it is OnTick that
\* calls Stop the Tick completes and the request it issued is withdrawn.
C28_StoppedByOnTick ==
    [][\A t \in Timers : C28_Case(t) =>
          /\ target'[t] = NoNumber
          /\ source'[t] = NoNumber
          /\ PlaceOf(fired', t, "OnTick") # 0 =>
                /\ ret' = "False"
                /\ NamesOf(fired', t)
                      = <<"OnStart", "add_timer", "OnTick", "remove_timer", "OnStop">>
                /\ PendingOf(pending', t) \subseteq PendingOf(pending, t)
          /\ PlaceOf(fired', t, "OnTick") = 0 => ret' = "raised"]_vars

(***************************************************************************)
(* The inside set.                                                         *)
(***************************************************************************)
\* C29 as stated: no tick fails by removing a Zone that is not in the inside
\* set, and after every tick Player.InsideOfZones holds exactly the Active
\* Zones that contain the player's position, each at most once.
C29_Claimed ==
    op = "Update" =>
        /\ ret # "raised"
        /\ \A z \in Zones :
              /\ InList(z, InsideOfZones) <=> (Active[z] /\ IsPointInZone(ObjectLocation, z))
              /\ Count(z, InsideOfZones) <= 1

\* What holds of the inside set in every state: no Zone is in it twice, and
\* after a completed tick every Zone in it is Active and contains the player.
C29_NoneTwice ==
    /\ \A z \in Zones : Count(z, InsideOfZones) <= 1
    /\ TickDone =>
          \A z \in Zones :
              InList(z, InsideOfZones) => Active[z] /\ IsPointInZone(ObjectLocation, z)

(***************************************************************************)
(* The request of a running timer and its _target.                         *)
(***************************************************************************)
\* The request that _source of timer t names is due at time d.
DueAt(p, src, t, d) == \E r \in p : Some(r.id) = src[t] /\ r.due = d

\* The case of C30 in a step: Start of the stopped timer t, or _reschedule of
\* the running timer t, called when _time is the time of the clock source.
C30_Case(t) ==
    /\ arg' = t
    /\ ctime = clock
    /\ \/ op' = "Start" /\ target[t] = NoNumber
       \/ op' = "_reschedule" /\ target[t] # NoNumber

\* C30 as stated, for the two operations it names: afterwards the time at
\* which the timer's pending request fires (the time it was issued plus the
\* delay asked for) is its _target.
C30_Claimed ==
    [][\A t \in Timers : C30_Case(t) =>
          DueAt(pending', source', t, target'[t][1])]_vars

\* What holds: the request is due Remaining after the call, where Start has
\* first replaced a negative Remaining by Duration, while Start sets _target
\* to _time + Duration whatever Remaining is.  The two agree after Start when
\* Remaining was negative, and after _reschedule when Remaining is
\* _target - _time.
C30_DueAfterRemaining ==
    [][\A t \in Timers : C30_Case(t) =>
          /\ DueAt(pending', source', t, clock + Remaining'[t])
          /\ op' = "Start" =>
                /\ target'[t] = Some(ctime + Duration(t))
                /\ Remaining'[t] = (IF Remaining[t] < 0 THEN Duration(t) ELSE Remaining[t])
          /\ (op' = "Start" /\ Remaining[t] < 0)
                \/ (op' = "_reschedule" /\ Remaining[t] = target[t][1] - ctime)
             => DueAt(pending', source', t, target'[t][1])]_vars

(***************************************************************************)
(* The order of OnEnter and OnExit.                                        *)
(***************************************************************************)
\* Every Zone constructed with Inside = False; ticks and Active flags set
\* between them.
SpecEdges == InitPlain /\ [][NextZone]_vars

\* The OnEnter and OnExit invocations of Zone z in log f, in order.
EdgesOf(f, z) == Only(FiredOf(f, z), {"OnEnter", "OnExit"})

\* C31 as stated: for a Zone constructed with Inside = False the invocations
\* of OnEnter and OnExit alternate, starting with OnEnter: a tick invokes at
\* most one of them, OnEnter only when the last of the two invoked before was
\* not OnEnter, and OnExit only when it was OnEnter.
C31_Claimed ==
    [][\A z \in Zones : op' = "Update" =>
          /\ Len(EdgesOf(fired', z)) <= 1
          /\ EdgesOf(fired', z) = <<"OnEnter">> => lastEdge[z] # "OnEnter"
          /\ EdgesOf(fired', z) = <<"OnExit">> => lastEdge[z] = "OnEnter"]_vars

\* What holds: the two handlers follow the containment flag, not each other.
\* A tick invokes OnEnter (when set) exactly when the flag of an evaluated
\* Zone turns true, and OnExit (when set) exactly when it turns false and the
\* Zone is in the inside set; and OnExit is never invoked twice in a row or
\* before the first OnEnter.
C31_EdgeOfFlag ==
    [][\A z \in Zones : op' = "Update" =>
          /\ Calls(fired', z, "OnEnter")
                = (IF HasHandler(z, "OnEnter") /\ ~zinside[z] /\ zinside'[z] THEN 1 ELSE 0)
          /\ Calls(fired', z, "OnExit")
                = (IF /\ HasHandler(z, "OnExit")
                      /\ zinside[z] /\ ~zinside'[z]
                      /\ InList(z, InsideOfZones)
                   THEN 1 ELSE 0)
          /\ EdgesOf(fired', z) = <<"OnExit">> => lastEdge[z] = "OnEnter"]_vars

====
